---- MODULE Spec2Model ----
(***************************************************************************)
(* Model of addon/debounce-task.ts (ember-lifeline): debounceTask,         *)
(* cancelDebounce and the per-owner disposable, together with the two      *)
(* collaborators they call: the run loop's debounce/cancel and the         *)
(* owner's lifecycle (registerDisposable / runDisposables / isDestroyed).  *)
(***************************************************************************)
EXTENDS Naturals, Sequences, FiniteSets

\* ------------------------------------------------------------------ bounds
MaxId == 2        \* accepted debounceTask calls (timer handles handed out)
MaxTime == 3      \* last instant of the simulated clock

\* ------------------------------------------------------------------ values
Owners == {"o1", "o2"}
Args == {"a1", "a2"}
Waits == {1, 2}

\* typeof nameOrFunction is the "kind" of an identity
StrKey(s) == [kind |-> "string", v |-> s]
FnKey(f) == [kind |-> "function", v |-> f]
NumKey == [kind |-> "number", v |-> "42"]

\* what callers pass as nameOrFunction: a method name, the name of a member
\* that is no function, a function value and a value of another type
Identities == {StrKey("m"), StrKey("x"), FnKey("f1"), NumKey}

\* obj[name] of every owner at construction: m is the function f1, x is data
InitialMembers == [m |-> "f1", x |-> "data"]
FunctionValues == {"f1", "f2"}

\* the objects that exist and what their callers pass: one object used with
\* every kind of identity, two objects sharing a method name, or one object
\* whose method is reassigned and whose task calls debounceTask for itself
Worlds == {[owners |-> {"o1"}, identities |-> Identities, args |-> Args, waits |-> Waits,
            dynamic |-> FALSE],
           [owners |-> {"o1", "o2"}, identities |-> {StrKey("m")}, args |-> {"a1"},
            waits |-> {2}, dynamic |-> FALSE],
           [owners |-> {"o1"}, identities |-> {StrKey("m"), FnKey("f1")}, args |-> {"a1"},
            waits |-> {1}, dynamic |-> TRUE]}

VARIABLES
    world,                \* the objects and identities in use, fixed at construction
    registeredDebounces,  \* WeakMap: owner -> Map(nameOrFunction -> PendingDebounce)
    timers,               \* run loop: the timers that are scheduled and not yet run
    nextId,               \* next timer handle / closure identity handed out
    now,                  \* simulated clock
    members,              \* owner -> member name -> value (obj[name])
    lifecycle,            \* owner -> "alive" | "destroying" | "destroyed"
    disposables,          \* owner -> number of disposables registered for it
    burst,                \* history: per (owner, identity), the calls since the last
                          \* invocation, cancel or teardown
    last                  \* history: what the last step did (an invocation, an error)

vars == <<world, registeredDebounces, timers, nextId, now, members, lifecycle,
          disposables, burst, last>>

\* the program's own state, without the history variables
program == <<world, registeredDebounces, timers, nextId, now, members, lifecycle, disposables>>

\* ------------------------------------------------------------- Map helpers
EmptyMap == [k \in {} |-> 0]
MapHas(m, k) == k \in DOMAIN m
MapSet(m, k, val) == [x \in DOMAIN m \cup {k} |-> IF x = k THEN val ELSE m[x]]
MapDelete(m, k) == [x \in DOMAIN m \ {k} |-> m[x]]
MapValues(m) == {m[k] : k \in DOMAIN m}

\* registeredDebounces.get(obj) !== undefined
HasPendingDebounces(obj) == obj \in DOMAIN registeredDebounces

\* ------------------------------------------------------------- run loop
\* cancel(cancelId): removes the timer with that handle; a handle that has
\* run or was cancelled already is ignored
RunLoopCancel(ts, cancelId) == {t \in ts : t.id # cancelId}

\* mutant: debounce adds a timer and leaves a pending one of the method alone
RunLoopDebounceKeepsPending(ts, target, method, args, wait, id) ==
    ts \cup {[id |-> id, target |-> target, method |-> method,
              args |-> args, executeAt |-> now + wait]}

\* debounce(target, method, ...args, wait): one timer per (target, method);
\* a pending one is dropped and a new one, with the new args and the full
\* wait, takes its place under a new handle
RunLoopDebounce(ts, target, method, args, wait, id) ==
    {t \in ts : ~(t.target = target /\ t.method = method)}
        \cup {[id |-> id, target |-> target, method |-> method,
               args |-> args, executeAt |-> now + wait]}

Due(t) == t.executeAt <= now

\* ------------------------------------------------------------- the task
\* mutant: the closure calls the function the name stood for at the latest
\* debounceTask call
TaskFunctionAtCall(obj, nameOrFunction) ==
    IF nameOrFunction.kind = "function" THEN nameOrFunction.v
    ELSE IF burst[obj][nameOrFunction].state = "open" THEN burst[obj][nameOrFunction].fn
    ELSE members[obj][nameOrFunction.v]

\* the function the closure calls: nameOrFunction itself, or obj[nameOrFunction]
TaskFunction(obj, nameOrFunction) ==
    IF nameOrFunction.kind = "function" THEN nameOrFunction.v
    ELSE members[obj][nameOrFunction.v]

\* ------------------------------------------------------------- history helpers
\* identities a task can be scheduled under
TaskKeys == {k \in Identities : k.kind \in {"string", "function"}}

Closed(why) == [state |-> why, prev |-> "none", id |-> 0, args |-> "none",
                first |-> "none", at |-> 0, wait |-> 0, n |-> 0, fn |-> "none"]
IsOpen(obj, k) == burst[obj][k].state = "open"

\* the burst of (obj, k) after one more accepted call
Called(obj, k, id, args, wait) ==
    [state |-> "open",
     prev |-> IF IsOpen(obj, k) THEN burst[obj][k].prev ELSE burst[obj][k].state,
     id |-> id, args |-> args,
     first |-> IF IsOpen(obj, k) THEN burst[obj][k].first ELSE args,
     at |-> now, wait |-> wait,
     n |-> IF IsOpen(obj, k) THEN burst[obj][k].n + 1 ELSE 1,
     fn |-> TaskFunction(obj, k)]

\* the burst of (obj, k) that a call made by the running task begins
CalledWhileRunning(obj, k, id, args, wait) ==
    [state |-> "open", prev |-> "running", id |-> id, args |-> args, first |-> args,
     at |-> now, wait |-> wait, n |-> 1, fn |-> TaskFunction(obj, k)]

Quiet(op, result) == [op |-> op, result |-> result, found |-> FALSE, obj |-> "none",
                      key |-> NumKey, fn |-> "none", args |-> "none", id |-> 0,
                      call |-> Closed("none")]

PairTimersIn(ts, obj, k) == {t \in ts : t.method.obj = obj /\ t.method.nameOrFunction = k}
PairTimers(obj, k) == PairTimersIn(timers, obj, k)
HasEntryIn(reg, obj, k) == obj \in DOMAIN reg /\ k \in DOMAIN reg[obj]
HasEntry(obj, k) == HasEntryIn(registeredDebounces, obj, k)

Init ==
    /\ world \in Worlds
    /\ registeredDebounces = EmptyMap
    /\ timers = {}
    /\ nextId = 1
    /\ now = 0
    /\ members = [o \in Owners |-> InitialMembers]
    /\ lifecycle = [o \in Owners |-> "alive"]
    /\ disposables = [o \in Owners |-> 0]
    /\ burst = [o \in Owners |-> [k \in TaskKeys |-> Closed("none")]]
    /\ last = Quiet("step", "ok")

\* ------------------------------------------------------------- debounceTask
\* mutant: the assertion on obj.isDestroyed is missing
AssertionFailureArgumentsOnly(obj, nameOrFunction) ==
    IF nameOrFunction.kind \notin {"string", "function"}
        THEN "InvalidArgumentError"
    ELSE IF nameOrFunction.kind # "function"
            /\ members[obj][nameOrFunction.v] \notin FunctionValues
        THEN "InvalidArgumentError"
    ELSE "ok"

\* the three assertions at the head of debounceTask, in their order
AssertionFailure(obj, nameOrFunction) ==
    IF nameOrFunction.kind \notin {"string", "function"}
        THEN "InvalidArgumentError"
    ELSE IF nameOrFunction.kind # "function"
            /\ members[obj][nameOrFunction.v] \notin FunctionValues
        THEN "InvalidArgumentError"
    ELSE IF lifecycle[obj] = "destroyed"
        THEN "InvalidStateError"
    ELSE "ok"

\* mutant: one Map of pending debounces for all objects
SharedPendingDebounces(obj) ==
    IF registeredDebounces = EmptyMap THEN EmptyMap
    ELSE registeredDebounces[CHOOSE o \in DOMAIN registeredDebounces : TRUE]

\* pendingDebounces = registeredDebounces.get(obj), a new Map when absent
PendingDebouncesOf(obj) ==
    IF HasPendingDebounces(obj) THEN registeredDebounces[obj] ELSE EmptyMap

\* the closure (...args) => {...}: it captures obj and nameOrFunction, and
\* is a new function object each time it is evaluated
NewDebouncedTask(obj, nameOrFunction, id) ==
    [id |-> id, obj |-> obj, nameOrFunction |-> nameOrFunction]

\* mutant: a new closure on every call
AlwaysNewDebouncedTask(pendingDebounces, obj, nameOrFunction, id) ==
    NewDebouncedTask(obj, nameOrFunction, id)

\* mutant: a method name and the function it names share one pending entry
Aliases(obj, nameOrFunction) ==
    {k \in TaskKeys : TaskFunction(obj, k) = TaskFunction(obj, nameOrFunction)}
AliasedDebouncedTask(pendingDebounces, obj, nameOrFunction, id) ==
    IF \E k \in Aliases(obj, nameOrFunction) : MapHas(pendingDebounces, k)
        THEN pendingDebounces[CHOOSE k \in Aliases(obj, nameOrFunction) :
                                  MapHas(pendingDebounces, k)].debouncedTask
        ELSE NewDebouncedTask(obj, nameOrFunction, id)

\* if (!pendingDebounce) a new closure else pendingDebounce.debouncedTask
ChooseDebouncedTask(pendingDebounces, obj, nameOrFunction, id) ==
    IF MapHas(pendingDebounces, nameOrFunction)
        THEN pendingDebounces[nameOrFunction].debouncedTask
        ELSE NewDebouncedTask(obj, nameOrFunction, id)

\* mutant: no new timer is requested while one is pending for the closure
ScheduledTimersUnlessPending(obj, debouncedTask, args, wait, cancelId) ==
    IF \E t \in timers : t.target = obj /\ t.method = debouncedTask
        THEN timers
        ELSE RunLoopDebounce(timers, obj, debouncedTask, args, wait, cancelId)

\* mutant: a closure taken over from an entry is taken to be scheduled already
ScheduledTimersForNewClosure(obj, debouncedTask, args, wait, cancelId) ==
    IF debouncedTask.id = cancelId
        THEN RunLoopDebounce(timers, obj, debouncedTask, args, wait, cancelId)
        ELSE timers

\* cancelId = debounce(obj, debouncedTask, ...debounceArgs): the run loop's
\* timers after the call
ScheduledTimers(obj, debouncedTask, args, wait, cancelId) ==
    RunLoopDebounce(timers, obj, debouncedTask, args, wait, cancelId)

\* mutant: a disposable is registered whenever the object's Map holds no entry
RegisteredDisposablesWhenEmpty(obj) ==
    IF PendingDebouncesOf(obj) # EmptyMap THEN disposables
    ELSE [disposables EXCEPT ![obj] = @ + 1]

\* if (!pendingDebounces) { ... registerDisposable(obj, ...) }
RegisteredDisposables(obj) ==
    IF HasPendingDebounces(obj) THEN disposables
    ELSE [disposables EXCEPT ![obj] = @ + 1]

DebounceTask(obj, nameOrFunction, args, wait) ==
    LET failure == AssertionFailure(obj, nameOrFunction)
        pendingDebounces == PendingDebouncesOf(obj)
        debouncedTask == ChooseDebouncedTask(pendingDebounces, obj, nameOrFunction, nextId)
        cancelId == nextId
    IN  /\ last' = Quiet("debounceTask", failure)
        /\ IF failure # "ok"
            THEN UNCHANGED <<program, burst>>
            ELSE /\ nextId <= MaxId
                 /\ now + wait <= MaxTime
                 /\ disposables' = RegisteredDisposables(obj)
                 /\ timers' = ScheduledTimers(obj, debouncedTask, args, wait, cancelId)
                 /\ registeredDebounces' =
                        MapSet(registeredDebounces, obj,
                               MapSet(pendingDebounces, nameOrFunction,
                                      [debouncedTask |-> debouncedTask, cancelId |-> cancelId]))
                 /\ nextId' = nextId + 1
                 /\ burst' = [burst EXCEPT ![obj][nameOrFunction] =
                                  Called(obj, nameOrFunction, cancelId, args, wait)]
                 /\ UNCHANGED <<world, now, members, lifecycle>>

\* ------------------------------------------------------------- the timer runs
\* delete pendingDebounces[name]: removes a property of the Map object, not
\* an entry of the Map
DeleteNameProperty(pendingDebounces, nameOrFunction) == pendingDebounces

\* mutant: the closure calls the task with the arguments of the call that
\* began the burst, not with the ones the run loop hands it
ArgumentsOfFirstCall(t) ==
    IF IsOpen(t.method.obj, t.method.nameOrFunction)
        THEN burst[t.method.obj][t.method.nameOrFunction].first
        ELSE t.args

\* (...args) => ... apply(obj, args): the arguments the run loop hands over
InvocationArguments(t) == t.args

Fire(t) ==
    LET obj == t.method.obj
        nameOrFunction == t.method.nameOrFunction
    IN  /\ t \in timers
        /\ Due(t)
        /\ timers' = timers \ {t}
        /\ registeredDebounces' =
               [registeredDebounces EXCEPT ![obj] = DeleteNameProperty(@, nameOrFunction)]
        /\ last' = [op |-> "invoke", result |-> "ok", found |-> FALSE, obj |-> obj,
                    key |-> nameOrFunction, fn |-> TaskFunction(obj, nameOrFunction),
                    args |-> InvocationArguments(t), id |-> t.id,
                    call |-> burst[obj][nameOrFunction]]
        /\ burst' = IF burst[obj][nameOrFunction].id = t.id
                    THEN [burst EXCEPT ![obj][nameOrFunction] = Closed("fired")]
                    ELSE burst
        /\ UNCHANGED <<world, nextId, now, members, lifecycle, disposables>>

\* mutant: the run loop drops the timers of the method when the method returns
ReentrantTimersDropped(t, obj, debouncedTask, args, wait, cancelId) ==
    {u \in timers \ {t} : ~(u.target = obj /\ u.method = debouncedTask)}

\* the run loop's timers when the task, run by timer t, has called debounce
ReentrantTimers(t, obj, debouncedTask, args, wait, cancelId) ==
    RunLoopDebounce(timers \ {t}, obj, debouncedTask, args, wait, cancelId)

\* the timer runs and the task it invokes calls debounceTask(obj,
\* nameOrFunction, args, wait) for its own pair before it returns; a call
\* that fails its assertions leaves the state that Fire leaves
FireReentrant(t, args, wait) ==
    LET obj == t.method.obj
        nameOrFunction == t.method.nameOrFunction
        pendingDebounces == DeleteNameProperty(PendingDebouncesOf(obj), nameOrFunction)
        debouncedTask == ChooseDebouncedTask(pendingDebounces, obj, nameOrFunction, nextId)
        cancelId == nextId
    IN  /\ world.dynamic
        /\ t \in timers
        /\ Due(t)
        /\ AssertionFailure(obj, nameOrFunction) = "ok"
        /\ nextId <= MaxId
        /\ now + wait <= MaxTime
        /\ timers' = ReentrantTimers(t, obj, debouncedTask, args, wait, cancelId)
        /\ registeredDebounces' =
               MapSet(registeredDebounces, obj,
                      MapSet(pendingDebounces, nameOrFunction,
                             [debouncedTask |-> debouncedTask, cancelId |-> cancelId]))
        /\ nextId' = nextId + 1
        /\ disposables' = RegisteredDisposables(obj)
        /\ last' = [op |-> "invoke", result |-> "ok", found |-> FALSE, obj |-> obj,
                    key |-> nameOrFunction, fn |-> TaskFunction(obj, nameOrFunction),
                    args |-> InvocationArguments(t), id |-> t.id,
                    call |-> burst[obj][nameOrFunction]]
        /\ burst' = [burst EXCEPT ![obj][nameOrFunction] =
                         CalledWhileRunning(obj, nameOrFunction, cancelId, args, wait)]
        /\ UNCHANGED <<world, now, members, lifecycle>>

\* obj[name] = f: the method is replaced by another function
SetMethod(obj, name, f) ==
    /\ world.dynamic
    /\ members[obj][name] \in FunctionValues \ {f}
    /\ members' = [members EXCEPT ![obj][name] = f]
    /\ last' = Quiet("step", "ok")
    /\ UNCHANGED <<world, registeredDebounces, timers, nextId, now, lifecycle,
                   disposables, burst>>

\* the clock moves on only when every timer that is due has run
Tick ==
    /\ now < MaxTime
    /\ \A t \in timers : ~Due(t)
    /\ now' = now + 1
    /\ last' = Quiet("step", "ok")
    /\ UNCHANGED <<world, registeredDebounces, timers, nextId, members, lifecycle,
                   disposables, burst>>

\* ------------------------------------------------------------- cancelDebounce
\* history: cancelDebounce(obj, nameOrFunction) was called
Cancelled(obj, nameOrFunction) ==
    /\ last' = [Quiet("cancelDebounce", "ok") EXCEPT !.found = HasEntry(obj, nameOrFunction)]
    /\ burst' = IF nameOrFunction \notin TaskKeys THEN burst
                ELSE IF IsOpen(obj, nameOrFunction)
                    THEN [burst EXCEPT ![obj][nameOrFunction] = Closed("cancelled")]
                ELSE IF burst[obj][nameOrFunction].state \in {"fired", "disposed"}
                    THEN [burst EXCEPT ![obj][nameOrFunction] = Closed("cleared")]
                ELSE burst

\* mutant: the early return is missing, and the destructuring of undefined throws
CancelDebounceUnguarded(obj, nameOrFunction) ==
    IF ~HasEntry(obj, nameOrFunction)
    THEN /\ last' = Quiet("cancelDebounce", "TypeError")
         /\ UNCHANGED <<program, burst>>
    ELSE /\ Cancelled(obj, nameOrFunction)
         /\ registeredDebounces' =
                [registeredDebounces EXCEPT ![obj] = MapDelete(@, nameOrFunction)]
         /\ timers' = RunLoopCancel(timers, registeredDebounces[obj][nameOrFunction].cancelId)
         /\ UNCHANGED <<world, nextId, now, members, lifecycle, disposables>>

\* mutant: the entry is deleted and its timer is left running
CancelDebounceLeavesTimer(obj, nameOrFunction) ==
    /\ Cancelled(obj, nameOrFunction)
    /\ IF ~HasEntry(obj, nameOrFunction)
       THEN UNCHANGED program
       ELSE /\ registeredDebounces' =
                   [registeredDebounces EXCEPT ![obj] = MapDelete(@, nameOrFunction)]
            /\ UNCHANGED <<world, timers, nextId, now, members, lifecycle, disposables>>

\* mutant: the timer is cancelled and the entry is left in the Map
CancelDebounceLeavesEntry(obj, nameOrFunction) ==
    /\ Cancelled(obj, nameOrFunction)
    /\ IF ~HasEntry(obj, nameOrFunction)
       THEN UNCHANGED program
       ELSE /\ timers' = RunLoopCancel(timers, registeredDebounces[obj][nameOrFunction].cancelId)
            /\ UNCHANGED <<world, registeredDebounces, nextId, now, members, lifecycle,
                           disposables>>

CancelDebounce(obj, nameOrFunction) ==
    /\ Cancelled(obj, nameOrFunction)
    /\ IF ~HasPendingDebounces(obj) \/ ~MapHas(registeredDebounces[obj], nameOrFunction)
       THEN UNCHANGED program
       ELSE LET cancelId == registeredDebounces[obj][nameOrFunction].cancelId
            IN /\ registeredDebounces' =
                       [registeredDebounces EXCEPT ![obj] = MapDelete(@, nameOrFunction)]
               /\ timers' = RunLoopCancel(timers, cancelId)
               /\ UNCHANGED <<world, nextId, now, members, lifecycle, disposables>>

\* ------------------------------------------------------------- teardown
\* mutant: the loop runs over the keys of the Map, and cancels no timer
DebouncesDisposableOverKeys(debounces, ts) == ts

\* mutant: the disposable cancels every timer of the run loop
DebouncesDisposableOfAll(debounces, ts) == {}

\* the function getDebouncesDisposable returns: cancel every entry's cancelId
DebouncesDisposable(debounces, ts) ==
    {t \in ts : t.id \notin {e.cancelId : e \in MapValues(debounces)}}

\* const { cancelId } of debounces.values() throws on a value that is no object
DisposableResult(debounces) ==
    IF \A e \in MapValues(debounces) : "cancelId" \in DOMAIN e THEN "ok" ELSE "TypeError"

\* runDisposables(obj) in willDestroy: every disposable registered for obj
\* runs, once; obj.isDestroyed is still false
RunDisposables(obj) ==
    /\ lifecycle[obj] = "alive"
    /\ lifecycle' = [lifecycle EXCEPT ![obj] = "destroying"]
    /\ timers' = IF disposables[obj] > 0
                 THEN DebouncesDisposable(registeredDebounces[obj], timers)
                 ELSE timers
    /\ burst' = [burst EXCEPT ![obj] =
                    [k \in TaskKeys |-> IF IsOpen(obj, k) THEN Closed("disposed") ELSE @[k]]]
    /\ last' = Quiet("step",
                     IF disposables[obj] > 0 THEN DisposableResult(registeredDebounces[obj])
                     ELSE "ok")
    /\ UNCHANGED <<world, registeredDebounces, nextId, now, members, disposables>>

\* the object's destruction completes: obj.isDestroyed becomes true
Destroy(obj) ==
    /\ lifecycle[obj] = "destroying"
    /\ lifecycle' = [lifecycle EXCEPT ![obj] = "destroyed"]
    /\ last' = Quiet("step", "ok")
    /\ UNCHANGED <<world, registeredDebounces, timers, nextId, now, members, disposables, burst>>

\* a rejected call does not look at its arguments: one choice of them is enough
ArgsFor(k) == IF k \in TaskKeys THEN world.args ELSE {"a1"}
WaitsFor(k) == IF k \in TaskKeys THEN world.waits ELSE {2}

Next ==
    \/ \E obj \in world.owners, k \in world.identities :
          \E a \in ArgsFor(k), w \in WaitsFor(k) : DebounceTask(obj, k, a, w)
    \/ \E obj \in world.owners, k \in world.identities : CancelDebounce(obj, k)
    \/ \E t \in timers : Fire(t)
    \/ \E t \in timers, a \in world.args, w \in world.waits : FireReentrant(t, a, w)
    \/ \E obj \in world.owners, f \in FunctionValues : SetMethod(obj, "m", f)
    \/ Tick
    \/ \E obj \in world.owners : RunDisposables(obj)
    \/ \E obj \in world.owners : Destroy(obj)

Spec == Init /\ [][Next]_vars

\* the run loop runs every timer that is due, and time passes
FairSpec == Spec /\ WF_vars(Tick) /\ WF_vars(\E t \in timers : Fire(t))

\* ------------------------------------------------------------- claims
Pairs == Owners \X TaskKeys
Invoked == last.op = "invoke"

\* C1: a burst of one or more debounceTask calls for one (owner, identity),
\* with no cancel and no teardown, ends in exactly one invocation of the
\* task: while the burst is open exactly one timer stands for it, the timer
\* of its latest call, and the clock cannot pass it; no timer stands for a
\* pair outside a burst; every invocation is the run of the latest timer of
\* an open burst and closes it (the pair is open after it only when the task
\* itself has called debounceTask); and, with the run loop running what is
\* due and time passing, no burst stays open for ever.
C1_OpenBurstHasItsTimer ==
    \A p \in Pairs :
        IF IsOpen(p[1], p[2])
        THEN \E t \in timers : /\ PairTimers(p[1], p[2]) = {t}
                               /\ t.id = burst[p[1]][p[2]].id
                               /\ t.executeAt >= now
        ELSE PairTimers(p[1], p[2]) = {}
C1_InvocationEndsBurst ==
    Invoked => /\ last.call.state = "open"
               /\ last.id = last.call.id
               /\ IsOpen(last.obj, last.key) => burst[last.obj][last.key].prev = "running"
C1_BurstEnds ==
    []<>(\A p \in Pairs : ~IsOpen(p[1], p[2]))
C1_ExactlyOneInvocationPerBurst ==
    [](C1_OpenBurstHasItsTimer /\ C1_InvocationEndsBurst) /\ C1_BurstEnds
C1_Witness ==
    Invoked /\ last.call.n >= 2 /\ last.id = last.call.id /\ timers = {}

\* C2: the task is invoked with the arguments of the most recent
\* debounceTask call of the burst, also when an earlier call of the burst
\* passed other arguments.
C2_ArgumentsOfLatestCall ==
    Invoked => last.call.state = "open" /\ last.args = last.call.args
C2_Witness ==
    Invoked /\ last.call.n >= 2 /\ last.call.first # last.call.args
            /\ last.args = last.call.args

\* C3: every debounceTask call restarts the window: a pending timer is due
\* exactly `wait` after the most recent call for its pair, and an invocation
\* happens at that instant, not before and not after.
C3_WindowRestarts ==
    /\ \A t \in timers :
          LET b == burst[t.method.obj][t.method.nameOrFunction]
          IN b.state = "open" /\ t.executeAt = b.at + b.wait /\ now <= t.executeAt
    /\ Invoked => now = last.call.at + last.call.wait
C3_Witness ==
    Invoked /\ last.call.n >= 2 /\ last.call.at > 0 /\ last.call.wait = 2
            /\ now = last.call.at + 2

\* C4: after cancelDebounce on a pending debounce, and until the next
\* debounceTask for the pair, the owner's Map has no entry for the identity,
\* no timer stands for the pair, and no invocation comes from the cancelled
\* burst, however far the clock runs.
C4_CancelledNeverRuns ==
    /\ \A p \in Pairs :
          burst[p[1]][p[2]].state = "cancelled"
              => ~HasEntry(p[1], p[2]) /\ PairTimers(p[1], p[2]) = {}
    /\ Invoked => last.call.state # "cancelled"
C4_Witness ==
    \E p \in Pairs : burst[p[1]][p[2]].state = "cancelled" /\ now = MaxTime

\* C5: the first debounceTask after a cancel makes a new closure and a new
\* timer (neither is the cancelled one), and that burst is invoked once, with
\* the arguments and at the due time of its own latest call.
C5_NewClosureAndTimer ==
    \A p \in Pairs :
        burst[p[1]][p[2]].state = "cancelled" /\ burst'[p[1]][p[2]].state = "open"
        => LET e == registeredDebounces'[p[1]][p[2]]
           IN /\ e.debouncedTask.id = nextId
              /\ e.cancelId = nextId
              /\ PairTimersIn(timers', p[1], p[2]) =
                     {[id |-> nextId, target |-> p[1], method |-> e.debouncedTask,
                       args |-> burst'[p[1]][p[2]].args,
                       executeAt |-> now + burst'[p[1]][p[2]].wait]}
C5_InvokedFromSecondCall ==
    Invoked /\ last.call.prev = "cancelled"
        => /\ last.id = last.call.id
           /\ last.args = last.call.args
           /\ now = last.call.at + last.call.wait
C5_FreshStartAfterCancel ==
    [][C5_NewClosureAndTimer]_vars /\ []C5_InvokedFromSecondCall
C5_Witness ==
    Invoked /\ last.call.prev = "cancelled" /\ last.call.n = 1 /\ last.args = "a2"

\* C6: once the disposables of an owner have run, no timer that was pending
\* then is left, for string and function identities alike, so none of them
\* runs later; and no step raises a TypeError, the disposable's included.
C6_DisposedNeverRuns ==
    /\ \A p \in Pairs : burst[p[1]][p[2]].state = "disposed" => PairTimers(p[1], p[2]) = {}
    /\ Invoked => last.call.state # "disposed"
    /\ last.result # "TypeError"
C6_Witness ==
    /\ burst["o1"][StrKey("m")].state = "disposed"
    /\ burst["o1"][FnKey("f1")].state = "disposed"
    /\ now = MaxTime

\* C7: cancelDebounce raises no error; when the owner has no Map or the Map
\* has no entry for the identity it changes nothing; and after it the Map has
\* no entry for the identity, so a second cancel in a row changes nothing.
C7_CancelStep ==
    last'.op = "cancelDebounce" =>
        \A obj \in world.owners, k \in world.identities :
            CancelDebounce(obj, k)
            => /\ last'.result = "ok"
               /\ ~HasEntry(obj, k) => UNCHANGED <<program, burst>>
               /\ ~HasEntryIn(registeredDebounces', obj, k)
C7_CancelIsSafeAndIdempotent == [][C7_CancelStep]_vars
C7_Witness ==
    /\ last.op = "cancelDebounce" /\ ~last.found
    /\ \E p \in Pairs : burst[p[1]][p[2]].state = "cancelled"

\* C8: the Map, the timers and the closures of an owner change only in a
\* step of that owner's own history (its debounceTask and cancelDebounce
\* calls, the run of its timers, its teardown): a call on another owner
\* under the same method name leaves them as they were.
OwnerState(obj) ==
    <<HasPendingDebounces(obj),
      IF HasPendingDebounces(obj) THEN registeredDebounces[obj] ELSE EmptyMap,
      {t \in timers : t.target = obj \/ t.method.obj = obj}>>
C8_OtherOwnerUntouched ==
    \A obj \in Owners : burst'[obj] = burst[obj] => OwnerState(obj)' = OwnerState(obj)
C8_OwnersAreIndependent == [][C8_OtherOwnerUntouched]_vars
C8_Witness ==
    /\ burst["o1"][StrKey("m")].state = "cancelled"
    /\ IsOpen("o2", StrKey("m"))
    /\ burst["o2"][StrKey("m")].id = 1
    /\ PairTimers("o2", StrKey("m")) # {}

\* C9: on one owner, a method name and the function that the name stands
\* for are two identities: the entry and the timer of one change only in a
\* step of its own history, so a debounceTask or cancelDebounce under the
\* other leaves them as they were, and each of the two is invoked.
KeyState(obj, k) ==
    <<HasEntry(obj, k), IF HasEntry(obj, k) THEN registeredDebounces[obj][k] ELSE EmptyMap,
      PairTimers(obj, k)>>
C9_OtherIdentityUntouched ==
    \A obj \in Owners, k \in TaskKeys :
        burst'[obj][k] = burst[obj][k] => KeyState(obj, k)' = KeyState(obj, k)
C9_NameAndFunctionAreDistinct == [][C9_OtherIdentityUntouched]_vars
C9_Witness ==
    /\ members["o1"].m = "f1"
    /\ Invoked /\ last.key = FnKey("f1") /\ last.fn = "f1" /\ last.call.n = 1
    /\ burst["o1"][StrKey("m")].state = "fired"
    /\ nextId = 3

\* C10 as stated: debounceTask on a destroyed owner fails with
\* InvalidStateError.
C10_DestroyedGivesInvalidState ==
    [][\A obj \in Owners, k \in Identities, a \in Args, w \in Waits :
          DebounceTask(obj, k, a, w) /\ lifecycle[obj] = "destroyed"
          => last'.result = "InvalidStateError"]_vars

\* C10, amended: a debounceTask call that fails changes nothing; it fails
\* with InvalidArgumentError when the identity is no string or function, or
\* is a string that names no function of the owner, also on a destroyed
\* owner, and with InvalidStateError when the identity is valid and the owner
\* is destroyed; and a call that is accepted has a valid identity and an
\* owner that is not destroyed.
ValidIdentity(obj, k) ==
    k.kind = "function" \/ (k.kind = "string" /\ members[obj][k.v] \in FunctionValues)
C10_FailingCall ==
    /\ last'.result \in {"InvalidArgumentError", "InvalidStateError"}
          => /\ UNCHANGED <<program, burst>>
             /\ \A obj \in world.owners, k \in world.identities,
                   a \in world.args, w \in world.waits :
                    DebounceTask(obj, k, a, w)
                    => IF ValidIdentity(obj, k)
                       THEN lifecycle[obj] = "destroyed"
                            /\ last'.result = "InvalidStateError"
                       ELSE last'.result = "InvalidArgumentError"
    /\ last'.op = "debounceTask" /\ last'.result = "ok"
          => \A obj \in Owners, k \in TaskKeys :
                burst'[obj][k] # burst[obj][k]
                => ValidIdentity(obj, k) /\ lifecycle[obj] # "destroyed"
C10_FailsBeforeAnyMutation == [][C10_FailingCall]_vars
C10_Witness ==
    /\ last.op = "debounceTask" /\ last.result = "InvalidStateError"
    /\ lifecycle["o1"] = "destroyed"
    /\ HasEntry("o1", StrKey("m"))

\* C11 as stated: no task of an owner is invoked once the owner's disposables
\* have run, also when the call that scheduled it was accepted after they ran
\* and before the owner is destroyed.
C11_NoInvocationAfterTeardown ==
    Invoked => lifecycle[last.obj] = "alive"

\* C12 as stated: from the run of the timer of a pair until the next
\* debounceTask for the pair, the owner's Map has no entry for the identity.
C12_FiredEntryIsRemoved ==
    \A p \in Pairs : burst[p[1]][p[2]].state = "fired" => ~HasEntry(p[1], p[2])

\* C13: an owner has exactly one disposable registered when debounceTask was
\* ever accepted for it, whatever calls, cancels and timer runs followed, and
\* none when debounceTask was never accepted for it.
C13_HookRegisteredOnce ==
    \A obj \in Owners :
        disposables[obj] = IF \E k \in TaskKeys : burst[obj][k].state # "none"
                           THEN 1 ELSE 0
C13_Witness ==
    /\ disposables["o1"] = 1
    /\ disposables["o2"] = 0
    /\ IsOpen("o1", StrKey("m"))
    /\ burst["o1"][StrKey("m")].prev = "cancelled"
    /\ DOMAIN registeredDebounces["o1"] = {StrKey("m")}

\* C14: a debounceTask call for a pair that has an entry stores the closure
\* of that entry again, so while a burst is open every call of it stores the
\* closure its first call stored; a call for a pair without entry stores a
\* closure that did not exist before; and every call stores a timer handle
\* that no entry and no timer held before, that of the one timer of the pair.
Closures == {t.method : t \in timers}
               \cup UNION {{registeredDebounces[o][k].debouncedTask :
                              k \in DOMAIN registeredDebounces[o]} :
                           o \in DOMAIN registeredDebounces}
Handles == {t.id : t \in timers}
               \cup UNION {{registeredDebounces[o][k].cancelId :
                              k \in DOMAIN registeredDebounces[o]} :
                           o \in DOMAIN registeredDebounces}
C14_CallStoresClosureAndHandle ==
    \A p \in Pairs :
        burst'[p[1]][p[2]].state = "open" /\ burst'[p[1]][p[2]].id # burst[p[1]][p[2]].id
        => LET e == registeredDebounces'[p[1]][p[2]]
           IN /\ IsOpen(p[1], p[2]) /\ last'.op = "debounceTask" => HasEntry(p[1], p[2])
              /\ IF HasEntry(p[1], p[2])
                 THEN e.debouncedTask = registeredDebounces[p[1]][p[2]].debouncedTask
                 ELSE e.debouncedTask \notin Closures
              /\ e.cancelId \notin Handles
              /\ {t.id : t \in PairTimersIn(timers', p[1], p[2])} = {e.cancelId}
C14_ClosureReusedHandleFresh == [][C14_CallStoresClosureAndHandle]_vars
C14_Witness ==
    /\ IsOpen("o1", StrKey("m"))
    /\ burst["o1"][StrKey("m")].n = 2
    /\ registeredDebounces["o1"][StrKey("m")].debouncedTask.id = 1
    /\ registeredDebounces["o1"][StrKey("m")].cancelId = 2

\* C15: the function invoked under a string identity is the one the name
\* stands for on the owner when the timer runs, also when the member was
\* reassigned after the latest debounceTask call; under a function identity
\* it is the function passed, whatever the owner's members are.
C15_ResolvedWhenTimerRuns ==
    Invoked => last.fn = IF last.key.kind = "string"
                         THEN members[last.obj][last.key.v]
                         ELSE last.key.v
C15_Witness ==
    /\ Invoked /\ last.key = StrKey("m")
    /\ last.call.fn = "f1" /\ last.fn = "f2"

\* C16: the step in which the disposables of an owner run removes the timers
\* whose handles are in the entries of that owner's Map and no other timer,
\* changes no Map, leaves the timers and entries of every other owner as
\* they were, changes nothing at all when the owner has no Map or an empty
\* one, and raises no error.
C16_DisposablesStep ==
    \A obj \in Owners :
        lifecycle[obj] = "alive" /\ lifecycle'[obj] = "destroying"
        => LET ids == {registeredDebounces[obj][k].cancelId :
                          k \in DOMAIN PendingDebouncesOf(obj)}
           IN /\ timers' \subseteq timers
              /\ \A t \in timers : t \in timers' <=> t.id \notin ids
              /\ registeredDebounces' = registeredDebounces
              /\ \A o \in Owners \ {obj} : OwnerState(o)' = OwnerState(o)
              /\ PendingDebouncesOf(obj) = EmptyMap => timers' = timers
              /\ last'.result = "ok"
C16_DisposableCancelsOwnEntriesOnly == [][C16_DisposablesStep]_vars
C16_Witness ==
    /\ lifecycle["o1"] = "destroying"
    /\ burst["o1"][StrKey("m")].state = "disposed"
    /\ nextId = 3
    /\ IsOpen("o2", StrKey("m"))
    /\ burst["o2"][StrKey("m")].id = 1
    /\ PairTimers("o2", StrKey("m")) # {}
    /\ PairTimers("o1", StrKey("m")) = {}

\* C17: every timer is the timer of a pair; a pair has at most one timer, and
\* its handle is the cancelId of the pair's entry in the owner's Map; and the
\* timer that runs is the one of the latest debounceTask call for the pair,
\* so a timer replaced by a later call never runs.
C17_OneLiveTimerPerPair ==
    /\ \A t \in timers : t.target = t.method.obj
                          /\ <<t.method.obj, t.method.nameOrFunction>> \in Pairs
    /\ \A p \in Pairs :
          /\ Cardinality(PairTimers(p[1], p[2])) <= 1
          /\ \A t \in PairTimers(p[1], p[2]) :
                 /\ HasEntry(p[1], p[2])
                 /\ registeredDebounces[p[1]][p[2]].cancelId = t.id
    /\ Invoked => last.id = last.call.id
C17_Witness ==
    /\ Invoked /\ last.call.n = 2 /\ last.id = 2
    /\ registeredDebounces[last.obj][last.key].cancelId = 2
    /\ timers = {}

\* C18: a burst that begins after the timer of its pair has run, with or
\* without a cancelDebounce in between, has its one timer, with the arguments
\* and the due time of its latest call, and is invoked by that timer, with
\* those arguments, at that time; and cancelDebounce raises no error.
C18_ReusableAfterFire ==
    /\ \A p \in Pairs :
          IsOpen(p[1], p[2]) /\ burst[p[1]][p[2]].prev \in {"fired", "cleared"}
          => \E t \in timers :
                /\ PairTimers(p[1], p[2]) = {t}
                /\ t.id = burst[p[1]][p[2]].id
                /\ t.args = burst[p[1]][p[2]].args
                /\ t.executeAt = burst[p[1]][p[2]].at + burst[p[1]][p[2]].wait
    /\ Invoked /\ last.call.prev \in {"fired", "cleared"}
          => /\ last.id = last.call.id
             /\ last.args = last.call.args
             /\ now = last.call.at + last.call.wait
    /\ last.op = "cancelDebounce" => last.result = "ok"
C18_Witness ==
    /\ Invoked /\ last.call.prev = "fired" /\ last.call.n = 1
    /\ last.args = "a2" /\ lifecycle[last.obj] = "alive"
    /\ ~IsOpen(last.obj, last.key)

\* C19: when the task, run by the timer of its pair, calls debounceTask for
\* that pair, then after the run the owner's Map has the entry of that call
\* and the pair has one timer, with the handle of the entry and due `wait`
\* after the run; the timer stays until it runs, is cancelled or the owner is
\* torn down; and it runs once, at its due time.
C19_ReentrantCallIsKept ==
    /\ Invoked /\ IsOpen(last.obj, last.key)
          => /\ burst[last.obj][last.key].prev = "running"
             /\ HasEntry(last.obj, last.key)
             /\ registeredDebounces[last.obj][last.key].cancelId # last.id
             /\ \E t \in timers :
                    /\ PairTimers(last.obj, last.key) = {t}
                    /\ t.id = registeredDebounces[last.obj][last.key].cancelId
                    /\ t.executeAt = now + burst[last.obj][last.key].wait
    /\ \A p \in Pairs :
          IsOpen(p[1], p[2]) /\ burst[p[1]][p[2]].prev = "running"
          => \E t \in timers : /\ PairTimers(p[1], p[2]) = {t}
                                /\ t.id = burst[p[1]][p[2]].id
                                /\ t.executeAt >= now
    /\ Invoked /\ last.call.prev = "running"
          => /\ last.id = last.call.id
             /\ now = last.call.at + last.call.wait
             /\ ~IsOpen(last.obj, last.key) => PairTimers(last.obj, last.key) = {}
C19_Witness ==
    /\ Invoked /\ last.call.prev = "running" /\ last.id = 2
    /\ ~IsOpen(last.obj, last.key)
    /\ now = 2

====
